---- MODULE Spec2Model ----
(***************************************************************************)
(* Model of streamlit_authenticator/authenticate.py: the Authenticator     *)
(* that keeps a Cognito login in an encrypted cookie store.                *)
(*                                                                         *)
(* Representation.  Python strings the code only compares (access tokens,  *)
(* group names, dictionary keys) are TLA+ strings.  Identity tokens, which *)
(* the code splits and pads, and authorization codes are tuples of         *)
(* one-character strings; "" is the empty tuple.  A Python dict is a       *)
(* function on its keys, a Python list a tuple.  A JSON text is a record   *)
(* [json |-> v] around the value it denotes.  The outcome of a call is     *)
(* Ok(v) (returned v), PyNone (returned None) or Raise(e) (raised e).      *)
(***************************************************************************)
EXTENDS Integers, Sequences, FiniteSets, TLC

VARIABLES
    cookies,   \* the EncryptedCookieManager's content: present keys -> JSON text
    used,      \* authorization codes the provider has already redeemed
    now,       \* the provider's clock, compared with the tokens' exp claim
    last,      \* observation of the last call: request, responses, result
    ready,     \* cookie_manager.ready() as the current request's __init__ saw it
    tabs,      \* the client's concurrent requests: position, cookie manager, locals
    writer     \* history: which request wrote each persisted key and saved last

vars == <<cookies, used, now, last, ready, tabs, writer>>

\* bound of the clock: identity tokens expire at 1 and at 2
MaxTime == 2

----------------------------------------------------------------------------
\* Outcomes of calls

Ok(v) == [exc |-> "none", val |-> v]

Raise(e) == [exc |-> e]

Raised(r) == r.exc # "none"

\* the outcome of a call that yields None: a function that ends without a
\* return statement, dict.get of a missing key
PyNone == [exc |-> "none"]

HasVal(r) == "val" \in DOMAIN r

----------------------------------------------------------------------------
\* Strings as tuples of characters

RECURSIVE Rep(_, _)
\* Python's  ch * n
Rep(ch, n) == IF n <= 0 THEN <<>> ELSE <<ch>> \o Rep(ch, n - 1)

RECURSIVE Find(_, _, _)
\* the first index >= i at which ch occurs in s, or 0
Find(s, ch, i) ==
    IF i > Len(s) THEN 0
    ELSE IF s[i] = ch THEN i
    ELSE Find(s, ch, i + 1)

RECURSIVE Split(_, _)
\* Python's  s.split(sep)  for a one-character separator
Split(s, sep) ==
    LET i == Find(s, sep, 1)
    IN  IF i = 0
        THEN <<s>>
        ELSE <<SubSeq(s, 1, i - 1)>> \o Split(SubSeq(s, i + 1, Len(s)), sep)

\* the data characters of a base64 text: what precedes the first "="
Strip(s) ==
    LET i == Find(s, "=", 1)
    IN  IF i = 0 THEN s ELSE SubSeq(s, 1, i - 1)

----------------------------------------------------------------------------
\* Python dict and json helpers

EmptyDict == <<>>

EmptyList == <<>>

Put(d, k, v) == [x \in (DOMAIN d) \cup {k} |-> IF x = k THEN v ELSE d[x]]

json_dumps(v) == [json |-> v]

json_loads(s) == s.json

Elems(l) == {l[i] : i \in 1..Len(l)}

----------------------------------------------------------------------------
\* Identity tokens: header "." payload "." signature

\* base64url, unpadded, of  {"aud":"cid","exp":2,"cognito:groups":["a","b"]}  (64 characters)
PayloadAB ==
    <<"e", "y", "J", "h", "d", "W", "Q", "i", "O", "i", "J", "j", "a", "W", "Q", "i",
       "L", "C", "J", "l", "e", "H", "A", "i", "O", "j", "I", "s", "I", "m", "N", "v",
       "Z", "2", "5", "p", "d", "G", "8", "6", "Z", "3", "J", "v", "d", "X", "B", "z",
       "I", "j", "p", "b", "I", "m", "E", "i", "L", "C", "J", "i", "I", "l", "1", "9">>

\* base64url, unpadded, of  {"aud":"cid","exp":1,"cognito:groups":["readers"]}  (67 characters)
PayloadReaders ==
    <<"e", "y", "J", "h", "d", "W", "Q", "i", "O", "i", "J", "j", "a", "W", "Q", "i",
       "L", "C", "J", "l", "e", "H", "A", "i", "O", "j", "E", "s", "I", "m", "N", "v",
       "Z", "2", "5", "p", "d", "G", "8", "6", "Z", "3", "J", "v", "d", "X", "B", "z",
       "I", "j", "p", "b", "I", "n", "J", "l", "Y", "W", "R", "l", "c", "n", "M", "i",
       "X", "X", "0">>

\* base64url, unpadded, of  {"aud":"cid","exp":2}  (28 characters)
PayloadNoGroups ==
    <<"e", "y", "J", "h", "d", "W", "Q", "i", "O", "i", "J", "j", "a", "W", "Q", "i",
       "L", "C", "J", "l", "e", "H", "A", "i", "O", "j", "J", "9">>

\* base64url, unpadded, of  {"aud":"other","exp":2,"cognito:groups":["a"]}  (62 characters)
PayloadOtherAud ==
    <<"e", "y", "J", "h", "d", "W", "Q", "i", "O", "i", "J", "v", "d", "G", "h", "l",
       "c", "i", "I", "s", "I", "m", "V", "4", "c", "C", "I", "6", "M", "i", "w", "i",
       "Y", "2", "9", "n", "b", "m", "l", "0", "b", "z", "p", "n", "c", "m", "9", "1",
       "c", "H", "M", "i", "O", "l", "s", "i", "Y", "S", "J", "d", "f", "Q">>

\* base64url, unpadded, of  []  (3 characters)
PayloadArray ==
    <<"W", "1", "0">>

\* base64url, unpadded, of  "abc"  (7 characters)
PayloadString ==
    <<"I", "m", "F", "i", "Y", "y", "I">>

\* base64url, unpadded, of  x  (2 characters)
PayloadNotJson ==
    <<"e", "A">>

\* one data character: no base64 text has 4k+1 of them
PayloadOneChar == <<"e">>

\* a signature the pool's keys verify, and one made with a foreign key
GoodSig == <<"s">>

ForeignSig == <<"x">>

Jwt(payload, sig) == <<"h", ".">> \o payload \o <<".">> \o sig

TokAB == Jwt(PayloadAB, GoodSig)

TokReaders == Jwt(PayloadReaders, GoodSig)

TokNoGroups == Jwt(PayloadNoGroups, GoodSig)

TokOtherAud == Jwt(PayloadOtherAud, GoodSig)

TokForeign == Jwt(PayloadAB, ForeignSig)

TokArray == Jwt(PayloadArray, GoodSig)

TokString == Jwt(PayloadString, GoodSig)

TokNotJson == Jwt(PayloadNotJson, GoodSig)

TokOneChar == Jwt(PayloadOneChar, GoodSig)

TokTwoSegs == <<"h", ".">> \o PayloadNoGroups

TokEmpty == <<>>

\* identity tokens Cognito issues for this pool and client
IssuedTokens == {TokAB, TokReaders, TokNoGroups}

IdTokens == IssuedTokens \cup
            {TokOtherAud, TokForeign, TokArray, TokString, TokNotJson,
             TokOneChar, TokTwoSegs, TokEmpty}

\* what json.loads makes of the bytes a base64 text denotes
JsonOfBase64(data) ==
    CASE data = PayloadAB ->
           Ok([kind |-> "object",
               val |-> [k \in {"aud", "exp", "cognito:groups"} |->
                          CASE k = "aud" -> "cid"
                            [] k = "exp" -> 2
                            [] k = "cognito:groups" -> <<"a", "b">>]])
      [] data = PayloadReaders ->
           Ok([kind |-> "object",
               val |-> [k \in {"aud", "exp", "cognito:groups"} |->
                          CASE k = "aud" -> "cid"
                            [] k = "exp" -> 1
                            [] k = "cognito:groups" -> <<"readers">>]])
      [] data = PayloadNoGroups ->
           Ok([kind |-> "object",
               val |-> [k \in {"aud", "exp"} |->
                          CASE k = "aud" -> "cid"
                            [] k = "exp" -> 2]])
      [] data = PayloadOtherAud ->
           Ok([kind |-> "object",
               val |-> [k \in {"aud", "exp", "cognito:groups"} |->
                          CASE k = "aud" -> "other"
                            [] k = "exp" -> 2
                            [] k = "cognito:groups" -> <<"a">>]])
      [] data = PayloadArray -> Ok([kind |-> "array", val |-> EmptyList])
      [] data = PayloadString -> Ok([kind |-> "string", val |-> "abc"])
      [] OTHER -> Raise("JSONDecodeError")

----------------------------------------------------------------------------
\* The pure functions of Authenticator

\* the app client id the Authenticator is constructed with
ClientId == "cid"

\* base64.urlsafe_b64decode: the bytes are named by the data characters
urlsafe_b64decode(s) ==
    IF Len(s) % 4 # 0 \/ Len(Strip(s)) % 4 = 1
    THEN Raise("binascii.Error")
    ELSE Ok([b64 |-> Strip(s)])

\* json.loads of decoded bytes
json_loads_bytes(b) == JsonOfBase64(b.b64)

\* dict(x) for a parsed JSON value x
py_dict(x) ==
    CASE x.kind = "object" -> Ok(x.val)
      [] x.kind = "array" ->
           IF x.val = EmptyList THEN Ok(EmptyDict) ELSE Raise("TypeError")
      [] x.kind = "string" ->
           IF x.val = "" THEN Ok(EmptyDict) ELSE Raise("ValueError")

\* pad_base64 appending missing_padding characters instead of 4 - missing_padding
pad_base64_appends_remainder(data) ==
    LET missing_padding == Len(data) % 4
    IN  IF missing_padding # 0
        THEN data \o Rep("=", missing_padding)
        ELSE data

pad_base64(data) ==
    LET missing_padding == Len(data) % 4
    IN  IF missing_padding # 0
        THEN data \o Rep("=", 4 - missing_padding)
        ELSE data

get_user_groups(id_token) ==
    IF id_token = TokEmpty
    THEN Ok(EmptyList)
    ELSE LET segs == Split(id_token, ".")
         IN  IF Len(segs) # 3
             THEN Raise("ValueError")
             ELSE LET printable_payload == urlsafe_b64decode(pad_base64(segs[2]))
                  IN  IF Raised(printable_payload)
                      THEN printable_payload
                      ELSE LET payload_dict == json_loads_bytes(printable_payload.val)
                           IN  IF Raised(payload_dict)
                               THEN payload_dict
                               ELSE LET d == py_dict(payload_dict.val)
                                    IN  CASE d.exc = "TypeError" -> Ok(EmptyList)
                                          [] d.exc = "ValueError" -> d
                                          [] d.exc = "none" ->
                                               IF "cognito:groups" \in DOMAIN d.val
                                               THEN Ok(d.val["cognito:groups"])
                                               ELSE Ok(EmptyList)

\* get_user_groups tabulated over the identity tokens of the model, so that
\* it is evaluated once per token
user_groups_of == [id_token \in IdTokens |-> get_user_groups(id_token)]

\* A value of the query parameters, by its Python type: a list of strings,
\* a string, None or an int
PyList(items) == [py |-> "list", items |-> items]

PyStr(chars) == [py |-> "str", chars |-> chars]

PyNoneValue == [py |-> "NoneType"]

PyInt(n) == [py |-> "int", n |-> n]

\* x[0]
subscript0(x) ==
    CASE x.py = "list" ->
           IF x.items = <<>> THEN Raise("IndexError") ELSE Ok(x.items[1])
      [] x.py = "str" ->
           IF x.chars = <<>> THEN Raise("IndexError") ELSE Ok(<<x.chars[1]>>)
      [] x.py \in {"NoneType", "int"} -> Raise("TypeError")

\* params: what st.experimental_get_query_params() returned, a dict from
\* parameter names to values
get_auth_code(params) ==
    LET auth_code == IF "code" \in DOMAIN params
                     THEN subscript0(params["code"])
                     ELSE Raise("KeyError")
    IN  IF auth_code.exc \in {"KeyError", "TypeError"}
        THEN Ok(<<>>)
        ELSE auth_code

\* the (access_token, id_token) pair of a token-endpoint response
get_user_tokens(auth_code, token_response) ==
    CASE token_response.kind = "transport_failure" -> Raise("ConnectionError")
      [] token_response.kind = "not_json" -> Raise("JSONDecodeError")
      [] token_response.kind = "json" ->
           LET body == token_response.body
           IN  IF body.kind = "object"
                  /\ "access_token" \in DOMAIN body.val
                  /\ "id_token" \in DOMAIN body.val
               THEN Ok([access_token |-> body.val["access_token"],
                        id_token |-> body.val["id_token"]])
               ELSE Ok([access_token |-> "", id_token |-> TokEmpty])

\* cognitojwt.decode(id_token, region, pool_id, client_id) at time t: "ok",
\* or the exception it raises.  The library is known by its contract only:
\* JWTError for a token it cannot parse, CognitoJWTException for a foreign
\* signature, an elapsed exp or another audience.
cognitojwt_decode(id_token, t) ==
    LET segs == Split(id_token, ".")
    IN  IF Len(segs) # 3
        THEN "JWTError"
        ELSE LET claims == JsonOfBase64(segs[2])
             IN  IF Raised(claims) \/ claims.val.kind # "object"
                 THEN "JWTError"
                 ELSE IF segs[3] # GoodSig
                      \/ claims.val.val["exp"] <= t
                      \/ claims.val.val["aud"] # ClientId
                 THEN "CognitoJWTException"
                 ELSE "ok"

\* verify_token with JWTError missing from its except clause
verify_token_misses_jwterror(id_token, t) ==
    LET e == cognitojwt_decode(id_token, t)
    IN  IF e \in {"CognitoJWTException"} THEN FALSE ELSE TRUE

verify_token(id_token, t) ==
    LET e == cognitojwt_decode(id_token, t)
    IN  IF e \in {"CognitoJWTException", "JWTError"} THEN FALSE ELSE TRUE

----------------------------------------------------------------------------
\* The cookie store and the handlers

\* __init__ with the readiness test dropped
construct_without_stop(rdy) == "running"

\* __init__: the script run goes on, or st.stop() ends it
construct(rdy) == IF ~rdy THEN "stopped" ELSE "running"

\* self.cookie_manager.get(key)
cm_get(c, key) == IF key \in DOMAIN c THEN Ok(c[key]) ELSE PyNone

\* initialise_st_state_vars with the logout test dropped from its second condition
initialise_keeps_groups(c, params) ==
    LET logout == "logout" \in DOMAIN params
        c1 == IF "tokens" \notin DOMAIN c \/ logout
              THEN Put(c, "tokens", json_dumps(EmptyDict))
              ELSE c
        c2 == IF "user_groups" \notin DOMAIN c1
              THEN Put(c1, "user_groups", json_dumps(EmptyList))
              ELSE c1
    IN  c2

\* initialise_st_state_vars with the presence tests dropped
initialise_always_resets(c, params) ==
    Put(Put(c, "tokens", json_dumps(EmptyDict)), "user_groups", json_dumps(EmptyList))

\* the store after initialise_st_state_vars, which ends with save()
initialise_st_state_vars(c, params) ==
    LET logout == "logout" \in DOMAIN params
        c1 == IF "tokens" \notin DOMAIN c \/ logout
              THEN Put(c, "tokens", json_dumps(EmptyDict))
              ELSE c
        c2 == IF "user_groups" \notin DOMAIN c1 \/ logout
              THEN Put(c1, "user_groups", json_dumps(EmptyList))
              ELSE c1
    IN  c2

\* ret: what get_user_info returns; requests: the bearer tokens of the
\* userinfo requests it issued
get_user_info(c, userinfo_response) ==
    LET tokens == json_loads(c["tokens"])
        access_token == IF "access_token" \in DOMAIN tokens
                        THEN Ok(tokens["access_token"])
                        ELSE PyNone
    IN  IF HasVal(access_token) /\ access_token.val # ""
        THEN [requests |-> <<access_token.val>>,
              ret |-> CASE userinfo_response.kind = "transport_failure" ->
                             Raise("ConnectionError")
                        [] userinfo_response.kind = "json" ->
                             Ok(userinfo_response.body)]
        ELSE [requests |-> <<>>, ret |-> PyNone]

\* persist_tokens with the write of user_groups dropped
persist_keeps_groups(c, access_token, id_token, user_groups) ==
    IF access_token # ""
    THEN Put(c, "tokens",
             json_dumps([access_token |-> access_token, id_token |-> id_token]))
    ELSE c

\* persist_tokens with the test of access_token dropped
persist_unconditionally(c, access_token, id_token, user_groups) ==
    Put(Put(c, "tokens",
            json_dumps([access_token |-> access_token, id_token |-> id_token])),
        "user_groups", json_dumps(user_groups))

\* the store after the conditional write of activate, which ends with save()
persist_tokens(c, access_token, id_token, user_groups) ==
    IF access_token # ""
    THEN Put(Put(c, "tokens",
                 json_dumps([access_token |-> access_token, id_token |-> id_token])),
             "user_groups", json_dumps(user_groups))
    ELSE c

\* One call of activate on store c.  cookies: the store it leaves; flushes:
\* the store at each save(); exchange: the outcome of get_user_tokens
\* (of get_auth_code when that one raised);
\* groups: the outcome of get_user_groups (PyNone when not reached);
\* requests: the userinfo requests issued; ret: what the call returns or raises
activate(c, params, token_response, userinfo_response) ==
    LET c1 == initialise_st_state_vars(c, params)
        auth_code == get_auth_code(params)
        exchange == IF Raised(auth_code)
                    THEN auth_code
                    ELSE get_user_tokens(auth_code.val, token_response)
    IN  IF Raised(exchange)
        THEN [cookies |-> c1, flushes |-> <<c1>>, exchange |-> exchange,
              groups |-> PyNone, requests |-> <<>>, ret |-> exchange]
        ELSE
        LET access_token == exchange.val.access_token
            id_token == exchange.val.id_token
            user_groups == user_groups_of[id_token]
        IN  IF Raised(user_groups)
            THEN [cookies |-> c1, flushes |-> <<c1>>, exchange |-> exchange,
                  groups |-> user_groups, requests |-> <<>>, ret |-> user_groups]
            ELSE
            LET c2 == persist_tokens(c1, access_token, id_token, user_groups.val)
                info == get_user_info(c2, userinfo_response)
            IN  [cookies |-> c2,
                 flushes |-> IF access_token # "" THEN <<c1, c2>> ELSE <<c1>>,
                 exchange |-> exchange,
                 groups |-> user_groups,
                 requests |-> info.requests,
                 ret |-> info.ret]

check_access(c, t) ==
    LET raw == cm_get(c, "tokens")
    IN  IF ~HasVal(raw)
        THEN Raise("TypeError")
        ELSE LET tokens == json_loads(raw.val)
             IN  IF "access_token" \in DOMAIN tokens /\ "id_token" \in DOMAIN tokens
                 THEN Ok(verify_token(tokens["id_token"], t))
                 ELSE PyNone

\* check_role answering True when user_groups is not in the store
check_role_default_true(c, role) ==
    LET cookie_user_groups == cm_get(c, "user_groups")
    IN  IF HasVal(cookie_user_groups)
        THEN Ok(role \in Elems(json_loads(cookie_user_groups.val)))
        ELSE Ok(TRUE)

\* check_role comparing the role with the first persisted group only
check_role_first_group(c, role) ==
    LET cookie_user_groups == cm_get(c, "user_groups")
    IN  IF HasVal(cookie_user_groups)
        THEN LET l == json_loads(cookie_user_groups.val)
             IN  Ok(l # <<>> /\ role = l[1])
        ELSE Ok(FALSE)

check_role(c, role) ==
    LET cookie_user_groups == cm_get(c, "user_groups")
    IN  IF HasVal(cookie_user_groups)
        THEN Ok(role \in Elems(json_loads(cookie_user_groups.val)))
        ELSE Ok(FALSE)

----------------------------------------------------------------------------
\* The environment: requests, the provider's endpoints, roles asked for

\* an authorization code is a string of n "c"; the provider issued MaxCodes
MaxCodes == 2

ValidCodes == {Rep("c", n) : n \in 1..MaxCodes}

BadCode == <<"b">>

CodeParams == {PyList(<<code>>) : code \in ValidCodes \cup {BadCode}}

\* query parameters: "code" and "logout", each absent or a list of values
Requests ==
    {[k \in {} |-> <<>>]}
    \cup {[k \in {"code"} |-> cp] : cp \in CodeParams}
    \cup {[k \in {"logout"} |-> PyList(<<"true">>)]}
    \cup {[k \in {"code", "logout"} |->
              IF k = "code" THEN PyList(<<code>>) ELSE PyList(<<"true">>)] :
            code \in ValidCodes}

AccessTokens == {"A", "B"}

\* the (access_token, id_token) values of the 2xx bodies that carry both
TokenPairs ==
    ({"A"} \X IdTokens) \cup {<<"B", TokReaders>>, <<"", TokAB>>}

\* what the token endpoint may answer whatever the code
FailureResponses ==
    {[kind |-> "transport_failure"],
     [kind |-> "not_json", status |-> 502],
     [kind |-> "json", status |-> 400,
      body |-> [kind |-> "object", val |-> [error |-> "invalid_grant"]]]}

\* what it may answer to a code it issued and has not redeemed yet
GrantResponses ==
    {[kind |-> "json", status |-> 200,
      body |-> [kind |-> "object", val |-> [access_token |-> p[1], id_token |-> p[2]]]] :
        p \in TokenPairs}
    \cup {[kind |-> "json", status |-> 200,
           body |-> [kind |-> "object", val |-> [access_token |-> "A"]]],
          [kind |-> "json", status |-> 200,
           body |-> [kind |-> "object", val |-> [id_token |-> TokAB]]]}
    \cup {[kind |-> "json", status |-> 200,
           body |-> [kind |-> "array", val |-> EmptyList]]}

TokenEndpoint(auth_code, redeemed) ==
    IF auth_code \in ValidCodes \ redeemed
    THEN FailureResponses \cup GrantResponses
    ELSE FailureResponses

UserinfoResponses ==
    {[kind |-> "transport_failure"],
     [kind |-> "json", body |-> [kind |-> "object", val |-> [sub |-> "user"]]]}

Roles == {"a", "b", "readers", "writers"}

----------------------------------------------------------------------------
\* The state machine

NoCall == [op |-> "none"]

\* the two browser tabs of the client
Tabs == {1, 2}

\* a tab with no request in flight
IdleTab == [pc |-> "idle", params |-> EmptyDict, view |-> EmptyDict,
            queue |-> EmptyDict, exchange |-> PyNone]

\* nothing written yet: 0 stands for no request
NoWriter == [tokens |-> 0, user_groups |-> 0, save |-> 0, state |-> EmptyDict]

\* no tab takes part in the step
OneRequest == UNCHANGED <<tabs, writer>>

Init ==
    /\ cookies = EmptyDict
    /\ used = {}
    /\ now = 0
    /\ last = NoCall
    /\ ready = TRUE
    /\ tabs = [r \in Tabs |-> IdleTab]
    /\ writer = NoWriter

\* the script run of the current request got past __init__
Running == construct(ready) = "running"

Activate ==
    /\ Running
    /\ UNCHANGED ready
    /\ OneRequest
    /\ \E params \in Requests :
      \E token_response \in TokenEndpoint(get_auth_code(params).val, used) :
        \E userinfo_response \in UserinfoResponses :
          LET r == activate(cookies, params, token_response, userinfo_response)
          IN  \* without a userinfo request its response plays no part
              /\ r.requests = <<>> => userinfo_response.kind = "json"
              /\ cookies' = r.cookies
              /\ used' = IF token_response.kind = "json" /\ token_response.status = 200
                         THEN used \cup {get_auth_code(params).val}
                         ELSE used
              /\ last' = [op |-> "activate", pre |-> cookies, params |-> params,
                          token_response |-> token_response,
                          exchange |-> r.exchange, groups |-> r.groups,
                          flushes |-> r.flushes,
                          requests |-> r.requests, ret |-> r.ret]
              /\ UNCHANGED now

CheckAccess ==
    /\ Running
    /\ UNCHANGED ready
    /\ OneRequest
    /\ last' = [op |-> "check_access", pre |-> cookies, flushes |-> <<>>,
                ret |-> check_access(cookies, now)]
    /\ UNCHANGED <<cookies, used, now>>

CheckRole ==
    /\ Running
    /\ UNCHANGED ready
    /\ OneRequest
    /\ \E role \in Roles :
      /\ last' = [op |-> "check_role", pre |-> cookies, flushes |-> <<>>,
                  role |-> role, ret |-> check_role(cookies, role)]
      /\ UNCHANGED <<cookies, used, now>>

\* time passes at the provider
Tick ==
    /\ now < MaxTime
    /\ now' = now + 1
    /\ last' = [op |-> "tick"]
    /\ UNCHANGED <<cookies, used, ready>>
    /\ OneRequest

Next == Activate \/ CheckAccess \/ CheckRole \/ Tick

Spec == Init /\ [][Next]_vars

----------------------------------------------------------------------------
\* Requests that find the store not ready

\* a new request: the script constructs the Authenticator again
NewRequest ==
    \E rdy \in BOOLEAN :
      /\ ready' = rdy
      /\ last' = [op |-> "init", ret |-> construct(rdy)]
      /\ UNCHANGED <<cookies, used, now>>
      /\ OneRequest

InitReady ==
    /\ cookies = EmptyDict
    /\ used = {}
    /\ now = 0
    /\ last = NoCall
    /\ ready \in BOOLEAN
    /\ tabs = [r \in Tabs |-> IdleTab]
    /\ writer = NoWriter

NextReady == NewRequest \/ Activate \/ CheckAccess \/ CheckRole

SpecReady == InitReady /\ [][NextReady]_vars

----------------------------------------------------------------------------
\* The pure functions applied to inputs of every shape

\* the longest list given as a parameter value
MaxListLen == 2

\* the longest string given to pad_base64
MaxPadLen == 6

\* the strings over alphabet of length n, and of length at most n
StringsOfLen(alphabet, n) == [1..n -> alphabet]

StringsUpTo(alphabet, n) == UNION {StringsOfLen(alphabet, k) : k \in 0..n}

\* the strings a parameter value may carry
ParamStrings == ValidCodes \cup {BadCode, <<>>}

\* the shapes of the value of one query parameter
ParamValues ==
    {PyList(items) : items \in StringsUpTo(ParamStrings, MaxListLen)}
    \cup {PyStr(chars) : chars \in ParamStrings}
    \cup {PyNoneValue, PyInt(0)}

\* the shapes of the query parameters: code absent or of any shape, with or
\* without logout
ParamShapes ==
    {[k \in {} |-> PyNoneValue], [k \in {"logout"} |-> PyList(<<"true">>)]}
    \cup {[k \in {"code"} |-> v] : v \in ParamValues}
    \cup {[k \in {"code", "logout"} |-> IF k = "code" THEN v ELSE PyList(<<"true">>)] :
            v \in ParamValues}

GetAuthCode ==
    \E params \in ParamShapes :
      /\ last' = [op |-> "get_auth_code", params |-> params,
                  ret |-> get_auth_code(params)]
      /\ UNCHANGED <<cookies, used, now, ready>>
      /\ OneRequest

PadBase64 ==
    \E data \in StringsUpTo({"a", "="}, MaxPadLen) :
      /\ last' = [op |-> "pad_base64", data |-> data,
                  ret |-> pad_base64(data),
                  twice |-> pad_base64(pad_base64(data))]
      /\ UNCHANGED <<cookies, used, now, ready>>
      /\ OneRequest

NextPure == GetAuthCode \/ PadBase64

SpecPure == Init /\ [][NextPure]_vars

----------------------------------------------------------------------------
\* Two requests of one client, interleaved statement by statement.  Each
\* request has its own cookie manager cm: view, the client's cookies as the
\* request brought them, and queue, the writes not flushed yet.

\* d with the entries of q written over it
Override(d, q) ==
    [k \in DOMAIN d \cup DOMAIN q |-> IF k \in DOMAIN q THEN q[k] ELSE d[k]]

\* key in self.cookie_manager
cm_contains(cm, key) == key \in DOMAIN cm.view \cup DOMAIN cm.queue

\* self.cookie_manager[key] = value
cm_set(cm, key, value) == [cm EXCEPT !.queue = Put(cm.queue, key, value)]

\* the client's cookies after self.cookie_manager.save() flushed the queue
cm_save(store, cm) == Override(store, cm.queue)

\* the cookie manager after its save()
cm_saved(cm) == [cm EXCEPT !.view = Override(cm.view, cm.queue), !.queue = EmptyDict]

\* the first statement of initialise_st_state_vars
init_tokens(cm, params) ==
    IF ~cm_contains(cm, "tokens") \/ "logout" \in DOMAIN params
    THEN cm_set(cm, "tokens", json_dumps(EmptyDict))
    ELSE cm

\* its second statement with the logout test dropped
init_groups_without_logout(cm, params) ==
    IF ~cm_contains(cm, "user_groups")
    THEN cm_set(cm, "user_groups", json_dumps(EmptyList))
    ELSE cm

\* its second statement
init_groups(cm, params) ==
    IF ~cm_contains(cm, "user_groups") \/ "logout" \in DOMAIN params
    THEN cm_set(cm, "user_groups", json_dumps(EmptyList))
    ELSE cm

\* activate: the write of tokens
set_tokens(cm, access_token, id_token) ==
    cm_set(cm, "tokens",
           json_dumps([access_token |-> access_token, id_token |-> id_token]))

\* activate: the write of user_groups
set_user_groups(cm, user_groups) ==
    cm_set(cm, "user_groups", json_dumps(user_groups))

\* the token-endpoint responses of the interleaved requests
TabResponses(auth_code, redeemed) ==
    {tr \in TokenEndpoint(auth_code, redeemed) :
        tr.kind = "json" /\ tr.status = 200 =>
            /\ tr.body.kind = "object"
            /\ DOMAIN tr.body.val = {"access_token", "id_token"}
            /\ <<tr.body.val["access_token"], tr.body.val["id_token"]>>
                 \in {<<"A", TokAB>>, <<"B", TokReaders>>, <<"", TokAB>>}}

\* the history after request r flushed queue
Flushed(r, queue) ==
    IF queue = EmptyDict
    THEN writer
    ELSE [tokens |-> IF "tokens" \in DOMAIN queue THEN r ELSE writer.tokens,
          user_groups |-> IF "user_groups" \in DOMAIN queue
                          THEN r ELSE writer.user_groups,
          save |-> r,
          state |-> queue]

\* tab r goes on as t
TabStep(r, t) == tabs' = [tabs EXCEPT ![r] = t]

\* a request arrives: __init__ makes the cookie manager from its cookies
TabStart(r) ==
    /\ tabs[r].pc = "idle"
    /\ \E params \in Requests :
         TabStep(r, [pc |-> "init_tokens", params |-> params, view |-> cookies,
                     queue |-> EmptyDict, exchange |-> PyNone])
    /\ UNCHANGED <<cookies, used, now, last, ready, writer>>

TabInitTokens(r) ==
    /\ tabs[r].pc = "init_tokens"
    /\ TabStep(r, [init_tokens(tabs[r], tabs[r].params) EXCEPT !.pc = "init_groups"])
    /\ UNCHANGED <<cookies, used, now, last, ready, writer>>

TabInitGroups(r) ==
    /\ tabs[r].pc = "init_groups"
    /\ TabStep(r, [init_groups(tabs[r], tabs[r].params) EXCEPT !.pc = "init_save"])
    /\ UNCHANGED <<cookies, used, now, last, ready, writer>>

\* save() of initialise_st_state_vars or of activate
TabSave(r) ==
    /\ tabs[r].pc \in {"init_save", "save"}
    /\ cookies' = cm_save(cookies, tabs[r])
    /\ writer' = Flushed(r, tabs[r].queue)
    /\ TabStep(r, IF tabs[r].pc = "init_save"
                  THEN [cm_saved(tabs[r]) EXCEPT !.pc = "exchange"]
                  ELSE IdleTab)
    /\ UNCHANGED <<used, now, last, ready>>

\* the locals of activate after get_auth_code, get_user_tokens and
\* get_user_groups, or what one of them raised
tab_exchange(params, token_response) ==
    LET auth_code == get_auth_code(params)
        exchange == IF Raised(auth_code)
                    THEN auth_code
                    ELSE get_user_tokens(auth_code.val, token_response)
    IN  IF Raised(exchange)
        THEN exchange
        ELSE LET user_groups == user_groups_of[exchange.val.id_token]
             IN  IF Raised(user_groups)
                 THEN user_groups
                 ELSE Ok([access_token |-> exchange.val.access_token,
                          id_token |-> exchange.val.id_token,
                          user_groups |-> user_groups.val])

\* the token exchange; an exception, or an empty access token, ends the
\* request with nothing more written
TabExchange(r) ==
    /\ tabs[r].pc = "exchange"
    /\ \E token_response \in TabResponses(get_auth_code(tabs[r].params).val, used) :
         LET x == tab_exchange(tabs[r].params, token_response)
         IN  /\ TabStep(r, IF Raised(x) \/ x.val.access_token = ""
                           THEN IdleTab
                           ELSE [tabs[r] EXCEPT !.pc = "set_tokens", !.exchange = x])
             /\ used' = IF token_response.kind = "json" /\ token_response.status = 200
                        THEN used \cup {get_auth_code(tabs[r].params).val}
                        ELSE used
    /\ UNCHANGED <<cookies, now, last, ready, writer>>

TabSetTokens(r) ==
    /\ tabs[r].pc = "set_tokens"
    /\ TabStep(r, [set_tokens(tabs[r], tabs[r].exchange.val.access_token,
                              tabs[r].exchange.val.id_token)
                     EXCEPT !.pc = "set_groups"])
    /\ UNCHANGED <<cookies, used, now, last, ready, writer>>

TabSetGroups(r) ==
    /\ tabs[r].pc = "set_groups"
    /\ TabStep(r, [set_user_groups(tabs[r], tabs[r].exchange.val.user_groups)
                     EXCEPT !.pc = "save"])
    /\ UNCHANGED <<cookies, used, now, last, ready, writer>>

NextTabs ==
    \E r \in Tabs :
        \/ TabStart(r)
        \/ TabInitTokens(r)
        \/ TabInitGroups(r)
        \/ TabSave(r)
        \/ TabExchange(r)
        \/ TabSetTokens(r)
        \/ TabSetGroups(r)

SpecTabs == Init /\ [][NextTabs]_vars

----------------------------------------------------------------------------
\* Vocabulary of the properties

SessionKeys == {"tokens", "user_groups"}

TokensOf(c) == json_loads(c["tokens"])

GroupsOf(c) == json_loads(c["user_groups"])

\* the persisted tokens are a non-empty object
HasTokens(c) == "tokens" \in DOMAIN c /\ DOMAIN TokensOf(c) # {}

\* tokens = {} and user_groups = []
IsEmptySession(c) ==
    /\ DOMAIN c = SessionKeys
    /\ DOMAIN TokensOf(c) = {}
    /\ Len(GroupsOf(c)) = 0

Logout(l) == "logout" \in DOMAIN l.params

\* the exchange of call l yielded no access token: raised, or the empty pair
NoAccessToken(l) == Raised(l.exchange) \/ l.exchange.val.access_token = ""

\* the empty object, or both tokens as non-empty strings
CompletePair(c) ==
    "tokens" \in DOMAIN c =>
        LET t == TokensOf(c)
        IN  \/ DOMAIN t = {}
            \/ /\ DOMAIN t = {"access_token", "id_token"}
               /\ t["access_token"] # ""
               /\ t["id_token"] # TokEmpty

\* a store with tokens holds the groups of its identity token
GroupsMatch(c) ==
    HasTokens(c) =>
        /\ "user_groups" \in DOMAIN c
        /\ "id_token" \in DOMAIN TokensOf(c)
        /\ LET g == get_user_groups(TokensOf(c)["id_token"])
           IN  ~Raised(g) /\ GroupsOf(c) = g.val

----------------------------------------------------------------------------
\* C1: in every reachable state the persisted tokens are the empty object or
\* hold both access_token and id_token as non-empty strings, and every save()
\* of activate flushes such a pair together with the groups of its id_token.
\* (Fails: a 200 body with access_token "A" and id_token "" is persisted.)
C1_TokenPairComplete ==
    /\ CompletePair(cookies)
    /\ last.op = "activate" =>
         \A i \in 1..Len(last.flushes) :
            CompletePair(last.flushes[i]) /\ GroupsMatch(last.flushes[i])

C3_Step ==
    /\ (HasTokens(cookies) /\ ~HasTokens(cookies')) =>
           (last'.op = "activate" /\ Logout(last'))
    /\ (last'.op = "activate" /\ ~Logout(last') /\ NoAccessToken(last')) =>
           \A k \in DOMAIN cookies : cookies'[k] = cookies[k]

\* C3: a step from non-empty to empty tokens is an activate on a request with
\* logout; an activate without logout whose exchange yields no access token
\* keeps every persisted key as it was.
C3_OnlyLogoutClears == [][C3_Step]_vars

\* C3 witness: an already-used code was presented to a session with tokens,
\* and the tokens are still there.
C3_Witness ==
    /\ last.op = "activate" /\ ~Logout(last)
    /\ get_auth_code(last.params).val \in used
    /\ last.token_response.kind = "json" /\ last.token_response.status = 400
    /\ HasTokens(last.pre) /\ HasTokens(cookies)

\* one step of the session, as C4 constrains it
C4_Step ==
    /\ last'.op \in {"check_access", "check_role"} =>
           (cookies' = cookies /\ last'.flushes = <<>>)
    /\ cookies' # cookies => last'.op = "activate"
    /\ (/\ last'.op = "activate"
        /\ ~Logout(last')
        /\ DOMAIN cookies = SessionKeys
        /\ NoAccessToken(last')) => cookies' = cookies

\* C4: check_access and check_role leave the store as it was and never
\* flush; only activate changes the store; and an activate without logout,
\* with both keys present, whose exchange yields no access token leaves
\* tokens and user_groups as they were.
C4_OnlyActivateWrites == [][C4_Step]_vars

\* C4 witness: a 200 body without id_token reached a session with tokens, and
\* the session is as before.
C4_Witness ==
    /\ last.op = "activate" /\ ~Logout(last)
    /\ last.token_response.kind = "json" /\ last.token_response.status = 200
    /\ ~Raised(last.exchange) /\ last.exchange.val.access_token = ""
    /\ HasTokens(last.pre) /\ cookies = last.pre

\* the exchange of call l returned a non-empty access token
Granted(l) == l.op = "activate" /\ ~NoAccessToken(l)

\* one step of the session, as C5 constrains it
C5_Step ==
    /\ Granted(last') =>
         /\ "tokens" \in DOMAIN cookies'
         /\ TokensOf(cookies') = last'.exchange.val
         /\ HasVal(last'.groups)
         /\ GroupsOf(cookies') = last'.groups.val
         /\ last'.exchange.val.id_token = TokAB => GroupsOf(cookies') = <<"a", "b">>
         /\ last'.flushes[Len(last'.flushes)] = cookies'
    /\ (Granted(last) /\ last'.op = "check_role") =>
         /\ HasVal(last.groups)
         /\ last'.ret = Ok(last'.role \in Elems(last.groups.val))
    /\ (/\ Granted(last)
        /\ last'.op = "check_access"
        /\ cognitojwt_decode(last.exchange.val.id_token, now) = "ok") =>
         last'.ret = Ok(TRUE)

\* C5 as stated: after an activate whose exchange returns a non-empty access
\* token A and an identity token J, tokens are {A, J}, user_groups are
\* groups(J) in claim order, both in the last flush; a check_role(r) that
\* follows is true exactly for r in groups(J), a check_access that follows is
\* true when J verifies.
C5_GrantPersisted == [][C5_Step]_vars

\* a failure outcome of the token endpoint
ExchangeFailure(r) ==
    \/ r.kind \in {"transport_failure", "not_json"}
    \/ /\ r.kind = "json"
       /\ \/ r.status # 200
          \/ r.body.kind # "object"
          \/ "access_token" \notin DOMAIN r.body.val
          \/ "id_token" \notin DOMAIN r.body.val

\* C6 as stated: for every failure outcome of the token endpoint the
\* exchange returns ("", "") and raises nothing, activate leaves the session
\* as initialise left it, and any exception comes from the userinfo request.
C6_ExchangeFailureIsEmptyPair ==
    (last.op = "activate" /\ ExchangeFailure(last.token_response)) =>
        /\ last.exchange = Ok([access_token |-> "", id_token |-> TokEmpty])
        /\ cookies = last.flushes[1]
        /\ (DOMAIN last.pre = SessionKeys /\ ~Logout(last)) => cookies = last.pre
        /\ Raised(last.ret) => last.requests # <<>>

\* the access token persisted in store c, "" when there is none
PersistedAccessToken(c) ==
    IF "tokens" \in DOMAIN c /\ "access_token" \in DOMAIN TokensOf(c)
    THEN TokensOf(c)["access_token"]
    ELSE ""

\* C7 as stated: activate issues one userinfo request with the access token
\* persisted after its writes and returns the profile; it issues none and
\* returns nothing exactly when no access token is persisted.
C7_ProfileOfPersistedToken ==
    last.op = "activate" =>
        IF PersistedAccessToken(cookies) # ""
        THEN /\ last.requests = <<PersistedAccessToken(cookies)>>
             /\ ~Raised(last.ret) => HasVal(last.ret)
        ELSE /\ last.requests = <<>>
             /\ last.ret = PyNone

\* C8: with access_token and id_token both persisted, check_access returns
\* TRUE when cognitojwt.decode accepts the id_token at that time and FALSE
\* for every exception it raises; without persisted tokens it never returns
\* TRUE.
C8_CheckAccessIsVerify ==
    last.op = "check_access" =>
        IF /\ "tokens" \in DOMAIN cookies
           /\ {"access_token", "id_token"} \subseteq DOMAIN TokensOf(cookies)
        THEN last.ret = Ok(cognitojwt_decode(TokensOf(cookies)["id_token"], now) = "ok")
        ELSE last.ret # Ok(TRUE)

\* C8 witness: check_access answered FALSE for a persisted token that has
\* expired.
C8_Witness ==
    /\ last.op = "check_access"
    /\ HasTokens(cookies)
    /\ TokensOf(cookies)["id_token"] = TokReaders
    /\ now >= 1
    /\ last.ret = Ok(FALSE)

\* C9: check_role(role) returns TRUE iff user_groups is present and role is
\* an element of the persisted list.
C9_CheckRoleIsMembership ==
    last.op = "check_role" =>
        last.ret = Ok(/\ "user_groups" \in DOMAIN cookies
                      /\ \E i \in 1..Len(GroupsOf(cookies)) :
                            GroupsOf(cookies)[i] = last.role)

\* C9 witness: a role that is the second of two persisted groups is granted.
C9_Witness ==
    /\ last.op = "check_role"
    /\ "user_groups" \in DOMAIN cookies
    /\ GroupsOf(cookies) = <<"a", "b">>
    /\ last.role = "b"
    /\ last.ret = Ok(TRUE)

\* C10 as stated: get_user_groups never fails; it returns the list under the
\* group claim when present and the empty sequence otherwise, also for a
\* payload that is not a JSON object and for a token that has not three
\* segments.
C10_GroupsNeverFails ==
    (last.op = "activate" /\ ~Raised(last.exchange)) =>
        /\ HasVal(last.groups)
        /\ last.groups.val =
             CASE last.exchange.val.id_token = TokAB -> <<"a", "b">>
               [] last.exchange.val.id_token = TokForeign -> <<"a", "b">>
               [] last.exchange.val.id_token = TokReaders -> <<"readers">>
               [] last.exchange.val.id_token = TokOtherAud -> <<"a">>
               [] OTHER -> <<>>

----------------------------------------------------------------------------
\* one step of the session, as C11 constrains it
C11_Step ==
    ~ready =>
        /\ last'.op = "init"
        /\ cookies' = cookies
        /\ used' = used

\* C11: while ready() was false for the current request, no handler runs: no
\* store read, write or flush, no token exchange, no userinfo request; the
\* only step that follows is the construction for a new request.
C11_NotReadyHalts == [][C11_Step]_vars

\* C11 witness: a request found the store not ready while the session held
\* tokens, and was stopped.
C11_Witness ==
    /\ ~ready
    /\ last.op = "init" /\ last.ret = "stopped"
    /\ HasTokens(cookies)

----------------------------------------------------------------------------
\* the value the contract of extract gives for params
ExtractContract(params) ==
    IF "code" \in DOMAIN params
       /\ params["code"].py = "list"
       /\ params["code"].items # <<>>
    THEN params["code"].items[1]
    ELSE <<>>

\* C12: get_auth_code never raises; it returns the first value of the
\* parameter named code, and the empty string when code is absent, not a
\* list, or a list with no element.
C12_ExtractNeverFails ==
    last.op = "get_auth_code" =>
        /\ ~Raised(last.ret)
        /\ last.ret.val = ExtractContract(last.params)

----------------------------------------------------------------------------
\* C13: the result of pad_base64 has a length that is a multiple of 4, is
\* the input followed only by "=" characters, and padding it again changes
\* nothing.
C13_PadNormalises ==
    last.op = "pad_base64" =>
        /\ Len(last.ret) % 4 = 0
        /\ Len(last.ret) >= Len(last.data)
        /\ SubSeq(last.ret, 1, Len(last.data)) = last.data
        /\ \A i \in (Len(last.data) + 1)..Len(last.ret) : last.ret[i] = "="
        /\ last.twice = last.ret

\* C13 witness: an input one character past a multiple of 4, itself ending
\* in "=", got three more "=".
C13_Witness ==
    /\ last.op = "pad_base64"
    /\ Len(last.data) = 5 /\ last.data[5] = "="
    /\ Len(last.ret) = 8

----------------------------------------------------------------------------
\* the session states of 4.6, told apart by the persisted tokens
Anonymous(c) == ~HasTokens(c)

Valid(c, t) == HasTokens(c) /\ verify_token(TokensOf(c)["id_token"], t)

Invalid(c, t) == HasTokens(c) /\ ~verify_token(TokensOf(c)["id_token"], t)

\* C14: check_access always finishes with a returned value, and the value
\* tells the three session states apart: TRUE for Valid, FALSE for Invalid,
\* a third value for Anonymous.
\* (Fails: with tokens = {} the call falls off its end and returns nothing.)
C14_ExplicitTriState ==
    last.op = "check_access" =>
        /\ ~Raised(last.ret)
        /\ HasVal(last.ret)
        /\ Valid(cookies, now) => last.ret = Ok(TRUE)
        /\ Invalid(cookies, now) => last.ret = Ok(FALSE)
        /\ Anonymous(cookies) => last.ret \notin {Ok(TRUE), Ok(FALSE)}

----------------------------------------------------------------------------
\* the groups that get_user_groups reads from the persisted id_token
ClaimedGroups(c) == user_groups_of[TokensOf(c)["id_token"]]

\* C15: the persisted user_groups are the groups of the persisted id_token,
\* and the empty array whenever the persisted tokens are empty; tokens and
\* user_groups are in the store together.
C15_GroupsOfPersistedToken ==
    /\ "tokens" \in DOMAIN cookies <=> "user_groups" \in DOMAIN cookies
    /\ "tokens" \in DOMAIN cookies =>
          IF HasTokens(cookies)
          THEN /\ ~Raised(ClaimedGroups(cookies))
               /\ GroupsOf(cookies) = ClaimedGroups(cookies).val
          ELSE GroupsOf(cookies) = EmptyList

\* C15 witness: a session holding the token with groups a, b logged in
\* again and now holds the other token with its one group.
C15_Witness ==
    /\ last.op = "activate" /\ ~Logout(last)
    /\ HasTokens(last.pre) /\ TokensOf(last.pre)["id_token"] = TokAB
    /\ GroupsOf(last.pre) = <<"a", "b">>
    /\ HasTokens(cookies) /\ TokensOf(cookies)["id_token"] = TokReaders
    /\ GroupsOf(cookies) = <<"readers">>

----------------------------------------------------------------------------
\* C16 as stated: check_role answers TRUE only in states where check_access
\* answers TRUE, that is, where the persisted id_token verifies now.
\* (Fails: check_role reads user_groups only and never verifies.)
C16_RoleOnlyIfVerified ==
    (last.op = "check_role" /\ last.ret = Ok(TRUE)) =>
        check_access(cookies, now) = Ok(TRUE)

\* C16 amended: check_role answers TRUE only if tokens are persisted and the
\* role is among the groups that the payload of the persisted id_token
\* claims, whether or not that token verifies.
C16_RoleOnlyIfClaimed ==
    (last.op = "check_role" /\ last.ret = Ok(TRUE)) =>
        /\ HasTokens(cookies)
        /\ ~Raised(ClaimedGroups(cookies))
        /\ last.role \in Elems(ClaimedGroups(cookies).val)

\* C16 witness: a role was granted from a persisted token that does not
\* verify.
C16_Witness ==
    /\ last.op = "check_role" /\ last.ret = Ok(TRUE)
    /\ HasTokens(cookies)
    /\ check_access(cookies, now) = Ok(FALSE)

----------------------------------------------------------------------------
\* C17: whatever the interleaving of two requests, the persisted tokens and
\* user_groups were written by the same request, and once a save() has
\* flushed writes, that request is the one whose flush came last and the
\* persisted state is exactly what it flushed.
C17_LastSaveWins ==
    /\ writer.tokens = writer.user_groups
    /\ writer.save # 0 =>
          /\ writer.tokens = writer.save
          /\ cookies = writer.state

\* C17 witness: tab 1 has flushed a logout and is still in flight, tab 2
\* flushed a login after it, and the store holds the login of tab 2.
C17_Witness ==
    /\ tabs[1].pc = "exchange" /\ "logout" \in DOMAIN tabs[1].params
    /\ "tokens" \in DOMAIN tabs[1].view /\ ~HasTokens(tabs[1].view)
    /\ writer.save = 2
    /\ HasTokens(cookies) /\ GroupsOf(cookies) # EmptyList

====
